---- MODULE Spec2Model ----
(***************************************************************************)
(* Chain reaction: the grid simulation engine (src/src/grid.rs) and the    *)
(* game controller (src/src/game.rs) as a state machine.                   *)
(*                                                                         *)
(* Rust's Option<T> is modelled as a sequence of length 0 (None) or 1      *)
(* (Some(x)).  Directions and slot categories keep the code's 0-based      *)
(* indices.  The vector of cells is a sequence, so the cell at vector      *)
(* index i is cells[i + 1].                                                *)
(***************************************************************************)
EXTENDS Integers, Sequences, FiniteSets, TLC

\* ---------------------------------------------------------------- bounds
\* Largest grid width and height the model explores (the menu offers up to 9).
MaxW == 3
MaxH == 2
\* Largest number of marbles placed in one game
MaxMarbles == 5
\* Largest number of cells of the grids the liveness check explores
MaxLiveCells == 4
\* The largest grid whose cells are constructed and compared with the geometry
MaxGeoW == 5
MaxGeoH == 4

\* ------------------------------------------------------ program constants
NumPlayers == 3
CellSize == 100
TotalSteps == 15

\* Body applied to the value of v, which is evaluated once however often Body
\* uses it (the loops below hand their accumulator on this way)
Let(v, Body(_)) == CHOOSE r \in {Body(x) : x \in {v}} : TRUE

None == << >>
Some(x) == << x >>
IsSome(o) == Len(o) = 1
Unwrap(o) == o[1]

\* ------------------------------------------------------------- geometry
Point(re, im) == [re |-> re, im |-> im]
PAdd(a, b) == Point(a.re + b.re, a.im + b.im)
PSub(a, b) == Point(a.re - b.re, a.im - b.im)
PScale(k, a) == Point(k * a.re, k * a.im)

\* i32 division truncates towards zero
TruncDiv(a, b) == IF a >= 0 THEN a \div b ELSE -((-a) \div b)
PDiv(a, k) == Point(TruncDiv(a.re, k), TruncDiv(a.im, k))

Dirs == 0 .. 3
DIRECTIONS == [d \in Dirs |->
    CASE d = 0 -> Point(1, 0)
      [] d = 1 -> Point(0, 1)
      [] d = 2 -> Point(-1, 0)
      [] d = 3 -> Point(0, -1)]

\* PointIter::next, applied until it returns None: the coordinates in the
\* order the iterator yields them.  p is the iterator's position.
RECURSIVE PointIterRest(_, _)
PointIterRest(dim, p) ==
    IF p.im # 0
    THEN Let(Point(p.re, p.im - 1), LAMBDA q : << q >> \o PointIterRest(dim, q))
    ELSE Let(Point(p.re - 1, dim.im - 1), LAMBDA q :
             IF q.re >= 0 THEN << q >> \o PointIterRest(dim, q) ELSE << >>)

\* Mutant of PointIter: the iteration starts on the last cell instead of
\* one past it
PointIterStartsOnLast(dim) == PointIterRest(dim, Point(dim.re - 1, dim.im - 1))

PointIter(dim) == PointIterRest(dim, Point(dim.re - 1, dim.im))

\* --------------------------------------------------------------- marbles
Marble(pos, owner) == [pos |-> pos, owner |-> owner]

\* Mutant of Marble::step: the marble lags one step behind
MarbleStepOneStepLate(marble, target, steps) ==
    [marble EXCEPT !.pos =
        PAdd(target, PDiv(PScale(steps + 1, PSub(marble.pos, target)), steps + 2))]

\* Marble::step
MarbleStep(marble, target, steps) ==
    [marble EXCEPT !.pos =
        PAdd(target, PDiv(PScale(steps, PSub(marble.pos, target)), steps + 1))]

\* ----------------------------------------------------------------- cells
Residing == 0
Incoming == 1
Outgoing == 2
Cats == 0 .. 2

SlotsNew == [d \in Dirs |-> None]

CountTrue(f) == Cardinality({d \in DOMAIN f : f[d]})

\* Mutant of CellNew: the eastern neighbour is tested against dim.re, not dim.re - 1
CellNewEastOffByOne(coord, dim) ==
    LET has_neighbor == [d \in Dirs |->
            CASE d = 0 -> coord.re < dim.re
              [] d = 1 -> coord.im < dim.im - 1
              [] d = 2 -> coord.re > 0
              [] d = 3 -> coord.im > 0]
    IN [coord |-> coord,
        owner |-> None,
        has_neighbor |-> has_neighbor,
        slots |-> [s \in Cats |-> SlotsNew],
        neighbors |-> CountTrue(has_neighbor),
        count |-> 0]

\* Cell::new
CellNew(coord, dim) ==
    LET has_neighbor == [d \in Dirs |->
            CASE d = 0 -> coord.re < dim.re - 1
              [] d = 1 -> coord.im < dim.im - 1
              [] d = 2 -> coord.re > 0
              [] d = 3 -> coord.im > 0]
    IN [coord |-> coord,
        owner |-> None,
        has_neighbor |-> has_neighbor,
        slots |-> [s \in Cats |-> SlotsNew],
        neighbors |-> CountTrue(has_neighbor),
        count |-> 0]

\* Mutant of Full: a cell counts as full only at exactly its capacity
FullExact(cell) == cell.count = cell.neighbors

\* Cell::full
Full(cell) == cell.count >= cell.neighbors

\* Cell::marbles: the marbles of a cell, slot category by slot category
CellMarbles(cell) ==
    LET flat == [k \in 1 .. 12 |-> cell.slots[(k - 1) \div 4][(k - 1) % 4]]
        some == SelectSeq(flat, IsSome)
    IN [k \in 1 .. Len(some) |-> Unwrap(some[k])]

Center(cell, cellsize) ==
    PAdd(PScale(cellsize, cell.coord), Point(cellsize \div 2, cellsize \div 2))

Target(cell, cellsize, direction) ==
    PAdd(Center(cell, cellsize), PScale(cellsize \div 4, DIRECTIONS[direction]))

\* Mutant of FirstFree: directions without a neighbour are not skipped
RECURSIVE FirstFreeAnyDirection(_, _)
FirstFreeAnyDirection(cell, direction) ==
    IF direction = 4 THEN 4
    ELSE IF IsSome(cell.slots[Residing][direction])
         THEN FirstFreeAnyDirection(cell, direction + 1)
         ELSE direction

\* The first direction the insertion loop of Cell::add_marble does not skip
\* (4 if it skips all of them)
RECURSIVE FirstFree(_, _)
FirstFree(cell, direction) ==
    IF direction = 4 THEN 4
    ELSE IF ~cell.has_neighbor[direction] \/ IsSome(cell.slots[Residing][direction])
         THEN FirstFree(cell, direction + 1)
         ELSE direction

\* Mutant of Promote: the marbles of a full cell stay Residing
PromoteNothing(cell, direction) == cell

\* Mutant of Promote: a marble is promoted into the slot of the next direction
RECURSIVE PromoteRotated(_, _)
PromoteRotated(cell, direction) ==
    IF direction = 4 THEN cell
    ELSE IF IsSome(cell.slots[Residing][direction])
         THEN PromoteRotated([cell EXCEPT
                  !.slots[Outgoing][(direction + 1) % 4] = cell.slots[Residing][direction],
                  !.slots[Residing][direction] = None], direction + 1)
         ELSE PromoteRotated(cell, direction + 1)

\* The promotion loop of Cell::add_marble: Residing marbles become Outgoing
RECURSIVE Promote(_, _)
Promote(cell, direction) ==
    IF direction = 4 THEN cell
    ELSE IF IsSome(cell.slots[Residing][direction])
         THEN Promote([cell EXCEPT
                  !.slots[Outgoing][direction] = cell.slots[Residing][direction],
                  !.slots[Residing][direction] = None], direction + 1)
         ELSE Promote(cell, direction + 1)

\* Mutant of CellAddMarble: the owner of the cell is not compared
CellAddMarbleAnyOwner(cell, owner, cellsize) ==
    LET c1 == IF IsSome(cell.owner) THEN cell ELSE [cell EXCEPT !.owner = Some(owner)]
    IN IF c1.count = c1.neighbors THEN [ok |-> FALSE, cell |-> c1]
       ELSE LET c2 == [c1 EXCEPT !.count = c1.count + 1]
                direction == FirstFree(c2, 0)
                c3 == IF direction = 4 THEN c2
                      ELSE [c2 EXCEPT !.slots[Residing][direction] =
                               Some(Marble(Target(c2, cellsize, direction), owner))]
            IN [ok |-> TRUE,
                cell |-> IF Full(c3) THEN Promote(c3, 0) ELSE c3]

\* Cell::add_marble: [ok, cell]
CellAddMarble(cell, owner, cellsize) ==
    LET c1 == IF IsSome(cell.owner) THEN cell ELSE [cell EXCEPT !.owner = Some(owner)]
    IN IF Unwrap(c1.owner) # owner THEN [ok |-> FALSE, cell |-> c1]
       ELSE IF c1.count = c1.neighbors THEN [ok |-> FALSE, cell |-> c1]
       ELSE LET c2 == [c1 EXCEPT !.count = c1.count + 1]
                direction == FirstFree(c2, 0)
                c3 == IF direction = 4 THEN c2
                      ELSE [c2 EXCEPT !.slots[Residing][direction] =
                               Some(Marble(Target(c2, cellsize, direction), owner))]
            IN [ok |-> TRUE,
                cell |-> IF Full(c3) THEN Promote(c3, 0) ELSE c3]

\* Mutant of CellSend: the cell loses its owner whatever is left in it
CellSendAlwaysDisowns(cell) ==
    LET result == cell.slots[Outgoing]
        taken == Cardinality({d \in Dirs : IsSome(result[d])})
        c1 == [cell EXCEPT !.slots[Outgoing] = SlotsNew, !.count = cell.count - taken]
    IN [cell |-> [c1 EXCEPT !.owner = None], result |-> result]

\* Mutant of CellSend: the Outgoing marbles are copied, not taken
CellSendCopy(cell) ==
    LET result == cell.slots[Outgoing]
        taken == Cardinality({d \in Dirs : IsSome(result[d])})
        c1 == [cell EXCEPT !.count = cell.count - taken]
    IN [cell |-> IF c1.count = 0 THEN [c1 EXCEPT !.owner = None] ELSE c1,
        result |-> result]

\* Cell::send: [cell, result]
CellSend(cell) ==
    LET result == cell.slots[Outgoing]
        taken == Cardinality({d \in Dirs : IsSome(result[d])})
        c1 == [cell EXCEPT !.slots[Outgoing] = SlotsNew, !.count = cell.count - taken]
    IN [cell |-> IF c1.count = 0 THEN [c1 EXCEPT !.owner = None] ELSE c1,
        result |-> result]

\* Mutant of CellReceive: the received marble is not counted
CellReceiveUncounted(cell, direction, marble) ==
    [cell EXCEPT !.owner = Some(marble.owner),
                 !.slots[Incoming][direction] = Some(marble)]

\* Mutant of CellReceive: the marbles of the cell take the new owner at once
CellReceiveCommits(cell, direction, marble) ==
    [cell EXCEPT !.owner = Some(marble.owner),
                 !.slots = [s \in Cats |-> [d \in Dirs |->
                     IF s = Incoming /\ d = direction THEN Some(marble)
                     ELSE IF IsSome(cell.slots[s][d])
                          THEN Some([Unwrap(cell.slots[s][d]) EXCEPT !.owner = marble.owner])
                          ELSE None]],
                 !.count = cell.count + 1]

\* Cell::receive
CellReceive(cell, direction, marble) ==
    [cell EXCEPT !.owner = Some(marble.owner),
                 !.slots[Incoming][direction] = Some(marble),
                 !.count = cell.count + 1]

\* Mutant of ROTATIONS: only the slot of the same direction is tried
RotationsSameOnly == << 0, 0, 0, 0 >>

\* The order in which Cell::sort_received tries the rotations
ROTATIONS == << 0, 1, 3, 2 >>

\* The double loop of Cell::sort_received (rotation outside, direction inside),
\* k counting its 16 iterations: slot to[direction], when it has a neighbour and
\* is empty, takes what slot from[(direction + rotation) % 4] holds.
RECURSIVE Redistribute(_, _, _, _)
Redistribute(cell, from, to, k) ==
    IF k = 16 THEN cell
    ELSE LET rotation == ROTATIONS[(k \div 4) + 1]
             direction == k % 4
             source == (direction + rotation) % 4
         IN Let(cell, LAMBDA c :
                IF ~c.has_neighbor[direction] \/ IsSome(c.slots[to][direction])
                THEN Redistribute(c, from, to, k + 1)
                ELSE Redistribute([c EXCEPT
                         !.slots[to][direction] = c.slots[from][source],
                         !.slots[from][source] = None], from, to, k + 1))

\* Cell::sort_received
CellSortReceived(cell) ==
    IF \A d \in Dirs : ~IsSome(cell.slots[Incoming][d]) THEN cell
    ELSE IF Full(cell)
         THEN Redistribute([cell EXCEPT !.slots[Outgoing] = cell.slots[Incoming],
                                        !.slots[Incoming] = SlotsNew],
                           Residing, Outgoing, 0)
         ELSE Redistribute(cell, Incoming, Residing, 0)

\* Cell::step
CellStep(cell, steps, cellsize) ==
    [cell EXCEPT !.slots = [s \in Cats |-> [d \in Dirs |->
        IF IsSome(cell.slots[s][d])
        THEN Some(MarbleStep(Unwrap(cell.slots[s][d]), Target(cell, cellsize, d), steps))
        ELSE None]]]

\* ------------------------------------------------------------------ grid
\* The game state: State::AcceptingInput and State::Animating(steps)
AcceptingInput == [tag |-> "AcceptingInput", steps |-> 0]
Animating(steps) == [tag |-> "Animating", steps |-> steps]

\* Grid::new: the cells are pushed column by column
GridNew(dim) ==
    [dim |-> dim,
     cells |-> [i \in 1 .. dim.re * dim.im |->
                   CellNew(Point((i - 1) \div dim.im, (i - 1) % dim.im), dim)]]

\* Grid::idx
Idx(grid, p) == p.re * grid.dim.im + p.im

\* Indexing the vector of cells panics outside 0 .. len-1 (a negative i32 cast
\* to usize is far beyond the length)
InBounds(grid, i) == i >= 0 /\ i < Len(grid.cells)

\* Grid::cell
GridCell(grid, p) == grid.cells[Idx(grid, p) + 1]

\* Mutant of CommitOwners: the marbles keep the owner they have
CommitOwnersNothing(grid) == grid

\* The first loop of Grid::spread: every marble takes the owner of its cell
CommitOwners(grid) ==
    [grid EXCEPT !.cells = [i \in DOMAIN grid.cells |->
        LET cell == grid.cells[i] IN
        IF IsSome(cell.owner)
        THEN [cell EXCEPT !.slots = [s \in Cats |-> [d \in Dirs |->
                 IF IsSome(cell.slots[s][d])
                 THEN Some([Unwrap(cell.slots[s][d]) EXCEPT !.owner = Unwrap(cell.owner)])
                 ELSE None]]]
        ELSE cell]]

\* The inner loop of Grid::spread: the neighbours receive what a cell sent.
\* acc is [grid, any_moved, panic].
RECURSIVE Deliver(_, _, _, _)
Deliver(acc0, coord, sent, direction) ==
    Let(acc0, LAMBDA acc :
        IF direction = 4 \/ acc.panic THEN acc
        ELSE IF ~IsSome(sent[direction]) THEN Deliver(acc, coord, sent, direction + 1)
        ELSE LET i == Idx(acc.grid, PAdd(coord, DIRECTIONS[direction])) IN
             IF ~InBounds(acc.grid, i) THEN [acc EXCEPT !.panic = TRUE]
             ELSE Deliver(
                    [acc EXCEPT
                        !.grid.cells[i + 1] = CellReceive(acc.grid.cells[i + 1],
                                                (direction + 2) % 4, Unwrap(sent[direction])),
                        !.any_moved = TRUE],
                    coord, sent, direction + 1))

\* The send/receive loop of Grid::spread over the coordinates in the given order
RECURSIVE SpreadOut(_, _, _)
SpreadOut(acc0, coords, k) ==
    Let(acc0, LAMBDA acc :
        IF k > Len(coords) \/ acc.panic THEN acc
        ELSE Let(coords[k], LAMBDA coord :
             Let(Idx(acc.grid, coord), LAMBDA i :
                 IF ~Full(acc.grid.cells[i + 1]) THEN SpreadOut(acc, coords, k + 1)
                 ELSE Let(CellSend(acc.grid.cells[i + 1]), LAMBDA s :
                          SpreadOut(Deliver([acc EXCEPT !.grid.cells[i + 1] = s.cell],
                                            coord, s.result, 0),
                                    coords, k + 1)))))

\* Mutant of SortAll: the received marbles are not sorted
SortAllNothing(grid) == grid

\* The last loop of Grid::spread: every cell sorts what it received
SortAll(grid) ==
    [grid EXCEPT !.cells = [i \in DOMAIN grid.cells |-> CellSortReceived(grid.cells[i])]]

\* Mutant of Spread: a spread that moved nothing starts an animation as well
SpreadAlwaysAnimates(grid) ==
    Let(Let(PointIter(grid.dim), LAMBDA coords :
            SpreadOut([grid |-> CommitOwners(grid), any_moved |-> FALSE, panic |-> FALSE],
                      coords, 1)),
        LAMBDA acc :
        [grid |-> IF acc.any_moved THEN SortAll(acc.grid) ELSE acc.grid,
         state |-> Animating(TotalSteps), panic |-> acc.panic])

\* Grid::spread: [grid, state, panic]
Spread(grid) ==
    Let(Let(PointIter(grid.dim), LAMBDA coords :
            SpreadOut([grid |-> CommitOwners(grid), any_moved |-> FALSE, panic |-> FALSE],
                      coords, 1)),
        LAMBDA acc :
        IF acc.panic THEN [grid |-> acc.grid, state |-> AcceptingInput, panic |-> TRUE]
        ELSE IF acc.any_moved
             THEN [grid |-> SortAll(acc.grid), state |-> Animating(TotalSteps),
                   panic |-> FALSE]
             ELSE [grid |-> acc.grid, state |-> AcceptingInput, panic |-> FALSE])

\* Grid::add_marble: [ok, grid, state, panic]
GridAddMarble(grid, coord, owner, cellsize) ==
    LET i == Idx(grid, coord)
        r == CellAddMarble(grid.cells[i + 1], owner, cellsize)
        g1 == [grid EXCEPT !.cells[i + 1] = r.cell]
    IN IF ~r.ok THEN [ok |-> FALSE, grid |-> g1, state |-> AcceptingInput, panic |-> FALSE]
       ELSE IF Full(r.cell)
            THEN LET s == Spread(g1) IN
                 [ok |-> TRUE, grid |-> s.grid, state |-> s.state, panic |-> s.panic]
            ELSE [ok |-> TRUE, grid |-> g1, state |-> AcceptingInput, panic |-> FALSE]

StepAll(grid, steps, cellsize) ==
    [grid EXCEPT !.cells = [i \in DOMAIN grid.cells |-> CellStep(grid.cells[i], steps, cellsize)]]

\* Mutant of GridStep: the countdown does not count
GridStepNoCountdown(grid, st, cellsize) ==
    IF st.tag = "AcceptingInput" THEN [grid |-> grid, state |-> st, panic |-> FALSE]
    ELSE Let(StepAll(grid, st.steps, cellsize), LAMBDA g1 :
             IF st.steps = 0 THEN Spread(g1)
             ELSE [grid |-> g1, state |-> Animating(st.steps), panic |-> FALSE])

\* Mutant of GridStep: the spread comes one step early, at steps == 1
GridStepSkipsLast(grid, st, cellsize) ==
    IF st.tag = "AcceptingInput" THEN [grid |-> grid, state |-> st, panic |-> FALSE]
    ELSE Let(StepAll(grid, st.steps, cellsize), LAMBDA g1 :
             IF st.steps <= 1 THEN Spread(g1)
             ELSE [grid |-> g1, state |-> Animating(st.steps - 1), panic |-> FALSE])

\* Mutant of GridStep: the animation ends at steps == 0 without a spread
GridStepNoSpread(grid, st, cellsize) ==
    IF st.tag = "AcceptingInput" THEN [grid |-> grid, state |-> st, panic |-> FALSE]
    ELSE Let(StepAll(grid, st.steps, cellsize), LAMBDA g1 :
             IF st.steps = 0 THEN [grid |-> g1, state |-> AcceptingInput, panic |-> FALSE]
             ELSE [grid |-> g1, state |-> Animating(st.steps - 1), panic |-> FALSE])

\* Grid::step: [grid, state, panic]
GridStep(grid, st, cellsize) ==
    IF st.tag = "AcceptingInput" THEN [grid |-> grid, state |-> st, panic |-> FALSE]
    ELSE Let(StepAll(grid, st.steps, cellsize), LAMBDA g1 :
             IF st.steps = 0 THEN Spread(g1)
             ELSE [grid |-> g1, state |-> Animating(st.steps - 1), panic |-> FALSE])

\* Mutant of CheckPlayers: the owners of cells are not revived
CheckPlayersKillsStarted(grid, ps) ==
    [o \in DOMAIN ps |->
        IF ps[o].started THEN [ps[o] EXCEPT !.alive = FALSE] ELSE ps[o]]

\* Mutant of CheckPlayers: a player without a cell is dead, started or not
CheckPlayersIgnoresStarted(grid, ps) ==
    LET owners == {Unwrap(grid.cells[i].owner) :
                      i \in {j \in DOMAIN grid.cells : IsSome(grid.cells[j].owner)}}
    IN [o \in DOMAIN ps |->
          IF o \in owners THEN [started |-> TRUE, alive |-> TRUE]
          ELSE [ps[o] EXCEPT !.alive = FALSE]]

\* Grid::check_players
CheckPlayers(grid, ps) ==
    LET owners == {Unwrap(grid.cells[i].owner) :
                      i \in {j \in DOMAIN grid.cells : IsSome(grid.cells[j].owner)}}
    IN [o \in DOMAIN ps |->
          IF o \in owners THEN [started |-> TRUE, alive |-> TRUE]
          ELSE IF ps[o].started THEN [ps[o] EXCEPT !.alive = FALSE]
          ELSE ps[o]]

\* ------------------------------------------------------------------ game
VARIABLES
    players,      \* Game.players: started and alive of each player
    state,        \* Game.state
    cur_player,   \* Game.cur_player
    selected,     \* Game.selected: the selection cursor
    grid,         \* Game.grid
    fault,        \* "none", or how the program stopped: "panic" (an index out
                  \* of bounds), "hang" (the next-player loop never ends)
    stepped,      \* history: the calls of Game::step made in the current
                  \* animation, since the state last became Animating(15)
    placed        \* history: the players whose Grid::add_marble has returned
                  \* Ok at least once

vars == << players, state, cur_player, selected, grid, fault, stepped, placed >>

\* The grid dimensions a game may be configured with
Dims == {Point(w, h) : w \in 1 .. MaxW, h \in 1 .. MaxH}

Coords(g) == {Point(x, y) : x \in 0 .. g.dim.re - 1, y \in 0 .. g.dim.im - 1}

\* Mutant of PlayerNew: a new player counts as started
PlayerNewStarted == [started |-> TRUE, alive |-> TRUE]

\* Player::new
PlayerNew == [started |-> FALSE, alive |-> TRUE]

\* Game::new
Init ==
    /\ players = [o \in 0 .. NumPlayers - 1 |-> PlayerNew]
    /\ cur_player = 0
    /\ state = AcceptingInput
    /\ \E dim \in Dims : grid = GridNew(dim)
    /\ selected = Point(0, 0)
    /\ fault = "none"
    /\ stepped = 0
    /\ placed = {}

\* Mutant of NextAlive: the next player is taken whether alive or not
NextAliveNoSkip(ps, cur, n) == (cur + 1) % NumPlayers

\* The loop of Game::next_player_if_accepting, n counting its iterations: the
\* player the loop breaks at, or NumPlayers when it has tried every player (it
\* then tries them again, for ever)
RECURSIVE NextAlive(_, _, _)
NextAlive(ps, cur, n) ==
    IF n = NumPlayers THEN NumPlayers
    ELSE LET next == (cur + 1) % NumPlayers IN
         IF ps[next].alive THEN next ELSE NextAlive(ps, next, n + 1)

\* Mutant of NextPlayerIfAccepting: the turn passes to the next player, alive
\* or not
NextPlayerIgnoresAlive(st, ps, cur) ==
    IF st.tag = "AcceptingInput"
    THEN [cur_player |-> (cur + 1) % NumPlayers, hang |-> FALSE]
    ELSE [cur_player |-> cur, hang |-> FALSE]

\* Mutant of NextPlayerIfAccepting: the turn passes whatever the state is
NextPlayerAlways(st, ps, cur) ==
    LET next == NextAlive(ps, cur, 0) IN
    IF next = NumPlayers THEN [cur_player |-> cur, hang |-> TRUE]
    ELSE [cur_player |-> next, hang |-> FALSE]

\* Mutant of NextPlayerIfAccepting: the turn stays with the current player
NextPlayerStays(st, ps, cur) == [cur_player |-> cur, hang |-> FALSE]

\* Game::next_player_if_accepting: [cur_player, hang]
NextPlayerIfAccepting(st, ps, cur) ==
    IF st.tag = "AcceptingInput"
    THEN LET next == NextAlive(ps, cur, 0) IN
         IF next = NumPlayers THEN [cur_player |-> cur, hang |-> TRUE]
         ELSE [cur_player |-> next, hang |-> FALSE]
    ELSE [cur_player |-> cur, hang |-> FALSE]

\* How a call that may panic, and then may hang, ends
Fault(panic, hang) == IF panic THEN "panic" ELSE IF hang THEN "hang" ELSE "none"

\* Mutant of ClickEffect: the state of the game is not looked at
ClickEffectAnyState(p) ==
    LET ps == [players EXCEPT ![cur_player].started = TRUE]
        r == GridAddMarble(grid, p, cur_player, CellSize)
    IN /\ players' = ps
       /\ grid' = r.grid
       /\ placed' = IF r.ok THEN placed \cup {cur_player} ELSE placed
       /\ IF r.ok
          THEN LET n == NextPlayerIfAccepting(r.state, ps, cur_player) IN
               /\ state' = r.state
               /\ cur_player' = n.cur_player
               /\ fault' = Fault(r.panic, n.hang)
          ELSE UNCHANGED << state, cur_player, fault >>

\* The effect of Game::click on everything but the selection cursor
ClickEffect(p) ==
    IF state.tag # "AcceptingInput"
    THEN UNCHANGED << players, state, cur_player, grid, fault, placed >>
    ELSE LET ps == [players EXCEPT ![cur_player].started = TRUE]
             r == GridAddMarble(grid, p, cur_player, CellSize)
         IN /\ players' = ps
            /\ grid' = r.grid
            /\ placed' = IF r.ok THEN placed \cup {cur_player} ELSE placed
            /\ IF r.ok
               THEN LET n == NextPlayerIfAccepting(r.state, ps, cur_player) IN
                    /\ state' = r.state
                    /\ cur_player' = n.cur_player
                    /\ fault' = Fault(r.panic, n.hang)
               ELSE UNCHANGED << state, cur_player, fault >>

\* Grid::marbles, counted
NumMarbles(g) ==
    LET RECURSIVE Sum(_)
        Sum(i) == IF i = 0 THEN 0 ELSE Len(CellMarbles(g.cells[i])) + Sum(i - 1)
    IN Sum(Len(g.cells))

\* The model stops placing marbles once MaxMarbles are on the grid
MayPlace == state.tag = "AcceptingInput" => NumMarbles(grid) < MaxMarbles

\* Game::click, for a mouse click on a cell of the grid
Click(p) ==
    /\ fault = "none"
    /\ MayPlace
    /\ selected' = p
    /\ ClickEffect(p)
    /\ stepped' = stepped

\* Game::keydown
Keys == {"Right", "Left", "Down", "Up", "Return", "Other"}

\* Mutant of KeyDown: Left wraps at the height of the grid
KeyDownLeftWrongAxis(keycode) ==
    /\ fault = "none"
    /\ CASE keycode = "Right" ->
              /\ selected' = [selected EXCEPT !.re = (selected.re + 1) % grid.dim.re]
              /\ UNCHANGED << players, state, cur_player, grid, fault, stepped, placed >>
         [] keycode = "Left" ->
              /\ selected' = [selected EXCEPT
                                 !.re = (selected.re + grid.dim.re - 1) % grid.dim.im]
              /\ UNCHANGED << players, state, cur_player, grid, fault, stepped, placed >>
         [] keycode = "Down" ->
              /\ selected' = [selected EXCEPT !.im = (selected.im + 1) % grid.dim.im]
              /\ UNCHANGED << players, state, cur_player, grid, fault, stepped, placed >>
         [] keycode = "Up" ->
              /\ selected' = [selected EXCEPT
                                 !.im = (selected.im + grid.dim.im - 1) % grid.dim.im]
              /\ UNCHANGED << players, state, cur_player, grid, fault, stepped, placed >>
         [] keycode = "Return" ->
              /\ MayPlace
              /\ selected' = selected
              /\ ClickEffect(selected)
              /\ stepped' = stepped
         [] OTHER -> UNCHANGED vars

\* Game::keydown: the effect of one key press
KeyDown(keycode) ==
    /\ fault = "none"
    /\ CASE keycode = "Right" ->
              /\ selected' = [selected EXCEPT !.re = (selected.re + 1) % grid.dim.re]
              /\ UNCHANGED << players, state, cur_player, grid, fault, stepped, placed >>
         [] keycode = "Left" ->
              /\ selected' = [selected EXCEPT
                                 !.re = (selected.re + grid.dim.re - 1) % grid.dim.re]
              /\ UNCHANGED << players, state, cur_player, grid, fault, stepped, placed >>
         [] keycode = "Down" ->
              /\ selected' = [selected EXCEPT !.im = (selected.im + 1) % grid.dim.im]
              /\ UNCHANGED << players, state, cur_player, grid, fault, stepped, placed >>
         [] keycode = "Up" ->
              /\ selected' = [selected EXCEPT
                                 !.im = (selected.im + grid.dim.im - 1) % grid.dim.im]
              /\ UNCHANGED << players, state, cur_player, grid, fault, stepped, placed >>
         [] keycode = "Return" ->
              /\ MayPlace
              /\ selected' = selected
              /\ ClickEffect(selected)
              /\ stepped' = stepped
         [] OTHER -> UNCHANGED vars

\* Game::step
Step ==
    /\ fault = "none"
    /\ IF state.tag = "AcceptingInput"
       THEN UNCHANGED vars
       ELSE \E r \in {GridStep(grid, state, CellSize)} :
            \E ps \in {CheckPlayers(r.grid, players)} :
            \E n \in {NextPlayerIfAccepting(r.state, ps, cur_player)} :
               /\ grid' = r.grid
               /\ state' = r.state
               /\ players' = IF r.panic THEN players ELSE ps
               /\ cur_player' = IF r.panic THEN cur_player ELSE n.cur_player
               /\ fault' = Fault(r.panic, n.hang)
               /\ stepped' = IF state.steps = 0 THEN 0 ELSE stepped + 1
               /\ placed' = placed
               /\ UNCHANGED selected

Next ==
    \/ \E p \in Coords(grid) : Click(p)
    \/ \E keycode \in Keys : KeyDown(keycode)
    \/ Step

Spec == Init /\ [][Next]_vars

\* Games on every grid size up to MaxGeoW x MaxGeoH in which the cursor keys
\* move the selection over the cells Grid::new has constructed
GeoDims == {Point(w, h) : w \in 1 .. MaxGeoW, h \in 1 .. MaxGeoH}

GeoInit ==
    /\ players = [o \in 0 .. NumPlayers - 1 |-> PlayerNew]
    /\ cur_player = 0
    /\ state = AcceptingInput
    /\ \E dim \in GeoDims : grid = GridNew(dim)
    /\ selected = Point(0, 0)
    /\ fault = "none"
    /\ stepped = 0
    /\ placed = {}

GeoNext == \E keycode \in {"Right", "Left", "Down", "Up"} : KeyDown(keycode)

GeoSpec == GeoInit /\ [][GeoNext]_vars

\* The main loop of run_game calls Game::step once per frame, for ever
FairInit == Init /\ Len(grid.cells) <= MaxLiveCells
FairSpec == FairInit /\ [][Next]_vars /\ WF_vars(Step)

\* ================================================================ claims
Cells == {grid.cells[i] : i \in DOMAIN grid.cells}

\* Grid::marbles
AllMarbles(g) ==
    LET RECURSIVE Cat(_)
        Cat(i) == IF i = 0 THEN << >> ELSE Cat(i - 1) \o CellMarbles(g.cells[i])
    IN Cat(Len(g.cells))

\* The marbles of a grid as a bag of positions (spread moves no marble and may
\* change its owner, so the position identifies it across a spread)
PosBag(g) ==
    LET all == AllMarbles(g) IN
    [p \in {all[i].pos : i \in DOMAIN all} |->
        Cardinality({i \in DOMAIN all : all[i].pos = p})]

\* The number of non-empty slots of a cell
Occupied(cell) ==
    Cardinality({sd \in Cats \X Dirs : IsSome(cell.slots[sd[1]][sd[2]])})

\* The number of directions in which a cell has a neighbour inside the grid
Capacity(cell, dim) ==
    Cardinality({d \in Dirs :
        LET q == PAdd(cell.coord, DIRECTIONS[d]) IN
        q.re >= 0 /\ q.re < dim.re /\ q.im >= 0 /\ q.im < dim.im})

Owns(o) == \E c \in Cells : c.owner = Some(o)

\* The grid between the Cell::add_marble and the spread() of Grid::add_marble
AfterAdd(p) ==
    [grid EXCEPT !.cells[Idx(grid, p) + 1] =
        CellAddMarble(grid.cells[Idx(grid, p) + 1], cur_player, CellSize).cell]

\* The grids spread() is called on: by Grid::add_marble when the cell the
\* current player's marble was added to is full, and by Grid::step at the end of
\* an animation, after the marbles have taken their last step
PreSpread ==
    IF state.tag = "AcceptingInput"
    THEN {AfterAdd(p) : p \in {q \in Coords(grid) :
              LET r == CellAddMarble(GridCell(grid, q), cur_player, CellSize)
              IN r.ok /\ Full(r.cell)}}
    ELSE IF state.steps = 0 THEN {StepAll(grid, 0, CellSize)} ELSE {}

Senders(g) ==
    {i \in DOMAIN g.cells :
        Full(g.cells[i]) /\ \E d \in Dirs : IsSome(g.cells[i].slots[Outgoing][d])}

\* C1: spread() neither creates nor destroys marbles: on every grid it is
\* called on, the marbles of the grid (as a bag of positions) and the number of
\* occupied slots are the same before and after the call.
C1_SpreadConservesMarbles ==
    \A g \in PreSpread :
        /\ PosBag(Spread(g).grid) = PosBag(g)
        /\ NumMarbles(Spread(g).grid) = NumMarbles(g)

\* C1 witness: a spread in which two cells send at once into a grid that
\* already holds marbles elsewhere
C1_Witness ==
    \E g \in PreSpread :
        /\ Cardinality(Senders(g)) >= 2
        /\ \E i \in DOMAIN g.cells : i \notin Senders(g) /\ g.cells[i].count > 0

\* C2: in every reachable state, and right after every add, each cell's count
\* field equals the number of its non-empty slots over Residing, Incoming and
\* Outgoing.
C2_CountMatchesSlots ==
    /\ \A c \in Cells : c.count = Occupied(c)
    /\ state.tag = "AcceptingInput" =>
          \A p \in Coords(grid) :
              LET c == GridCell(AfterAdd(p), p) IN c.count = Occupied(c)

\* C2 witness: a cell holding marbles in Residing and in Outgoing at once
C2_Witness ==
    \E c \in Cells :
        /\ \E d \in Dirs : IsSome(c.slots[Residing][d])
        /\ \E d \in Dirs : IsSome(c.slots[Outgoing][d])

\* C3 as stated: full() is true exactly when the count equals the capacity.
C3_FullIffCountEqualsCapacity ==
    \A c \in Cells : Full(c) <=> c.count = c.neighbors

\* C3 amended: full() is true exactly when the number of occupied slots is at
\* least the number of neighbouring cells (a cell that receives while it holds
\* marbles goes beyond its capacity).
C3_FullIffAtLeastCapacity ==
    \A c \in Cells : Full(c) <=> Occupied(c) >= Capacity(c, grid.dim)

\* C3 witness: a cell with neighbours that holds more marbles than its capacity
C3_Witness ==
    \E c \in Cells : c.neighbors > 0 /\ Occupied(c) > Capacity(c, grid.dim)

\* C4: in every reachable state, a cell has no owner exactly when its count is 0.
C4_OwnerNoneIffEmpty ==
    \A c \in Cells : (c.owner = None) <=> (c.count = 0)

\* C5: every animation runs to completion: an Animating game is eventually
\* AcceptingInput again (Game::step being called for ever).
C5_AnimationCompletes ==
    (state.tag = "Animating") ~> (state.tag = "AcceptingInput")

\* The first alive player in cyclic order after cur
FirstAliveAfter(ps, cur) ==
    CHOOSE q \in DOMAIN ps : \E k \in 1 .. NumPlayers :
        /\ q = (cur + k) % NumPlayers
        /\ ps[q].alive
        /\ \A j \in 1 .. k - 1 : ~ps[(cur + j) % NumPlayers].alive

\* The turn advances when an animation ends and when a marble is placed
\* without a spread
TurnAdvances ==
    /\ state'.tag = "AcceptingInput"
    /\ state.tag = "Animating" \/ NumMarbles(grid') # NumMarbles(grid)

\* C6: whenever the game accepts input the current player is alive, and every
\* turn advance picks the first alive player in cyclic order after the previous
\* current player (cur_player changes in no other step).
C6_TurnSkipsEliminated ==
    [][/\ state.tag = "AcceptingInput" => players[cur_player].alive
       /\ state'.tag = "AcceptingInput" => players'[cur_player'].alive
       /\ cur_player' = IF TurnAdvances
                        THEN FirstAliveAfter(players', cur_player)
                        ELSE cur_player]_vars

\* C6 witness: the game accepts input, two players are left, and the player
\* before the current one in cyclic order is eliminated (the turn skipped it)
C6_Witness ==
    /\ state.tag = "AcceptingInput"
    /\ ~players[(cur_player + NumPlayers - 1) % NumPlayers].alive
    /\ Cardinality({o \in DOMAIN players : players[o].alive}) = 2

\* C7: whenever the game accepts input, a started player who owns no cell is
\* not alive, and a player who owns a cell is alive.
C7_AliveIffOwnsCell ==
    state.tag = "AcceptingInput" =>
        \A o \in DOMAIN players :
            /\ (players[o].started /\ ~Owns(o)) => ~players[o].alive
            /\ Owns(o) => players[o].alive

\* C8: a click that fails (the cell the cursor lands on rejects the current
\* player's marble) changes nothing but the selection cursor.
C8_FailedClickChangesNothing ==
    [][(/\ state.tag = "AcceptingInput"
        /\ ~GridAddMarble(grid, selected', cur_player, CellSize).ok)
       => UNCHANGED << grid, state, cur_player, players >>]_vars

\* C9: Grid.add_marble on a cell owned by a different player returns an error
\* and leaves every cell of the grid unchanged.
C9_ForeignCellRejected ==
    \A p \in Coords(grid) : \A o \in DOMAIN players :
        LET owner == GridCell(grid, p).owner
            r == GridAddMarble(grid, p, o, CellSize)
        IN (IsSome(owner) /\ Unwrap(owner) # o) => (~r.ok /\ r.grid = grid)

\* C9 witness: the current player has clicked a cell of another player: the
\* cursor is on that cell, and the player is started without a marble placed
C9_Witness ==
    /\ state.tag = "AcceptingInput"
    /\ IsSome(GridCell(grid, selected).owner)
    /\ Unwrap(GridCell(grid, selected).owner) # cur_player
    /\ GridCell(grid, selected).count > 0
    /\ players[cur_player].started
    /\ ~Owns(cur_player)

\* C10: whenever the game accepts input no cell is full, so that a click can
\* only fail because of the cell's owner.
C10_NoFullCellWhenAccepting ==
    state.tag = "AcceptingInput" => \A c \in Cells : ~Full(c)

\* A step that places a marble: the game accepts input, the grid changes, and
\* the add at the cell the cursor lands on succeeds
Placed ==
    /\ state.tag = "AcceptingInput"
    /\ grid' # grid
    /\ GridAddMarble(grid, selected', cur_player, CellSize).ok

\* The cell the cursor lands on is at its capacity once the marble is added
Fills ==
    LET c == CellAddMarble(GridCell(grid, selected'), cur_player, CellSize).cell
    IN c.count = c.neighbors

\* The coordinates next to p inside the grid
NeighbourCoords(g, p) ==
    {q \in Coords(g) : \E d \in Dirs : q = PAdd(p, DIRECTIONS[d])}

\* C11: a placement that brings a cell to its capacity makes the state
\* Animating(15); afterwards the cell holds no marble and has no owner, each of
\* its neighbours in the grid holds one marble more than before and is owned by
\* the placing player, and cur_player is unchanged.
C11_FillingPlacementSpreads ==
    [][(Placed /\ Fills) =>
          /\ state' = Animating(TotalSteps)
          /\ GridCell(grid', selected').count = 0
          /\ Occupied(GridCell(grid', selected')) = 0
          /\ GridCell(grid', selected').owner = None
          /\ \A q \in NeighbourCoords(grid, selected') :
                /\ Occupied(GridCell(grid', q)) = Occupied(GridCell(grid, q)) + 1
                /\ GridCell(grid', q).count = GridCell(grid, q).count + 1
                /\ GridCell(grid', q).owner = Some(cur_player)
          /\ \A q \in Coords(grid) \ (NeighbourCoords(grid, selected') \cup {selected'}) :
                GridCell(grid', q).count = GridCell(grid, q).count
          /\ cur_player' = cur_player]_vars

\* C11 witness: an animation has just begun, the cell under the cursor is empty
\* and unowned, its neighbours all belong to the current player, and one of them
\* held marbles before it received one
C11_Witness ==
    /\ state = Animating(TotalSteps)
    /\ stepped = 0
    /\ GridCell(grid, selected).count = 0
    /\ GridCell(grid, selected).owner = None
    /\ \A q \in NeighbourCoords(grid, selected) :
          GridCell(grid, q).owner = Some(cur_player)
    /\ \E q \in NeighbourCoords(grid, selected) : GridCell(grid, q).count >= 2

\* C12: a placement that leaves the cell below its capacity leaves the game
\* accepting input, adds to that cell exactly one marble, owned by the placing
\* player, leaves every other cell unchanged, and passes the turn to the next
\* alive player (the placing player again when no other player is alive).
C12_PlainPlacement ==
    [][(Placed /\ ~Fills) =>
          LET old == GridCell(grid, selected')
              new == GridCell(grid', selected')
              olds == {CellMarbles(old)[k] : k \in DOMAIN CellMarbles(old)}
              news == {CellMarbles(new)[k] : k \in DOMAIN CellMarbles(new)}
          IN /\ state' = AcceptingInput
             /\ new.count = old.count + 1
             /\ Len(CellMarbles(new)) = Len(CellMarbles(old)) + 1
             /\ olds \subseteq news
             /\ \E m \in news \ olds : m.owner = cur_player /\ news = olds \cup {m}
             /\ new.owner = Some(cur_player)
             /\ ~Full(new)
             /\ \A q \in Coords(grid) \ {selected'} : GridCell(grid', q) = GridCell(grid, q)
             /\ cur_player' = FirstAliveAfter(players', cur_player)]_vars

\* C12 witness: the last placement put a second marble into a cell of capacity
\* three, and the turn has passed to another player
C12_Witness ==
    /\ state.tag = "AcceptingInput"
    /\ GridCell(grid, selected).count = 2
    /\ GridCell(grid, selected).neighbors = 3
    /\ IsSome(GridCell(grid, selected).owner)
    /\ Unwrap(GridCell(grid, selected).owner) # cur_player
    /\ \A o \in DOMAIN players : players[o].started /\ players[o].alive

\* A call of Game::step during an animation: the only step that changes an
\* Animating state
StepCall == state.tag = "Animating" /\ state' # state

\* The calls of Game::step in an animation before call number n only count the
\* animation down and move the marbles towards their cells; call number n
\* is the one that calls spread()
SpreadsOnCall(n) ==
    StepCall =>
        IF stepped + 1 < n
        THEN /\ state' = Animating(state.steps - 1)
             /\ grid' = StepAll(grid, state.steps, CellSize)
             /\ stepped' = stepped + 1
        ELSE /\ stepped + 1 = n
             /\ grid' = Spread(StepAll(grid, state.steps, CellSize)).grid
             /\ state' = Spread(StepAll(grid, state.steps, CellSize)).state
             /\ state' \in {AcceptingInput, Animating(TotalSteps)}
             /\ stepped' = 0

\* C13 as stated: after the game enters Animating(15), spread() is called on
\* the 15th following call of Game::step, the 14 calls before it only count down.
C13_SpreadOnFifteenthStep == [][SpreadsOnCall(TotalSteps)]_vars

\* C13 amended: after the game enters Animating(15), spread() is called on the
\* 16th following call of Game::step; the 15 calls before it only count the
\* animation down, from Animating(15) to Animating(0).
C13_SpreadOnSixteenthStep == [][SpreadsOnCall(TotalSteps + 1)]_vars

\* C13 witness: fifteen calls after the animation began the state is
\* Animating(0) and spread() has not been called yet
C13_Witness == state = Animating(0) /\ stepped = TotalSteps

\* C14: a call of Game::step in Animating(0) spreads: when no full cell has a
\* marble to send, the state becomes AcceptingInput and the turn passes once, to
\* the next alive player; when one has, the state becomes Animating(15) and
\* cur_player is unchanged.  Calls of Game::step while the game accepts input
\* change neither the turn nor the state.
C14_StepAtZeroSettlesOrContinues ==
    [][/\ (state = Animating(0) /\ state' # state) =>
             IF Senders(StepAll(grid, 0, CellSize)) = {}
             THEN /\ state' = AcceptingInput
                  /\ cur_player' = FirstAliveAfter(players', cur_player)
                  /\ \A i \in DOMAIN grid.cells :
                        /\ grid'.cells[i].count = grid.cells[i].count
                        /\ grid'.cells[i].owner = grid.cells[i].owner
             ELSE /\ state' = Animating(TotalSteps)
                  /\ cur_player' = cur_player
       /\ (state.tag = "AcceptingInput" /\ grid' = grid) =>
             (cur_player' = cur_player /\ state' = state)]_vars

\* C14 witness: the game accepts input again after an animation: a marble
\* rests in a slot that a placement would not have used yet (it arrived from a
\* neighbour), and the turn is with a player other than the cell's owner
C14_Witness ==
    /\ state.tag = "AcceptingInput"
    /\ \E c \in Cells : \E d \in Dirs :
          /\ IsSome(c.slots[Residing][d])
          /\ FirstFree(c, 0) < d
          /\ c.owner # Some(cur_player)

\* The grids a spread() could be called on in a reachable state: the grid as it
\* is, and the grids the game does call it on
SpreadArgs == {grid} \cup PreSpread

NoCellFull(g) == \A i \in DOMAIN g.cells : ~Full(g.cells[i])

\* Every marble of the grid has the owner of the cell that holds it
OwnersCommitted(g) ==
    \A i \in DOMAIN g.cells : \A k \in DOMAIN CellMarbles(g.cells[i]) :
        g.cells[i].owner = Some(CellMarbles(g.cells[i])[k].owner)

\* The two grids differ in nothing but the owner fields of marbles
SameButMarbleOwners(g, h) ==
    /\ g.dim = h.dim
    /\ \A i \in DOMAIN g.cells :
          /\ h.cells[i].owner = g.cells[i].owner
          /\ h.cells[i].count = g.cells[i].count
          /\ h.cells[i].coord = g.cells[i].coord
          /\ \A sd \in Cats \X Dirs :
                LET a == g.cells[i].slots[sd[1]][sd[2]]
                    b == h.cells[i].slots[sd[1]][sd[2]]
                IN /\ IsSome(a) <=> IsSome(b)
                   /\ IsSome(a) => Unwrap(a).pos = Unwrap(b).pos

\* C15 as stated: where no cell is full, spread() returns AcceptingInput and
\* changes nothing: no marble's position, slot or owner, no cell's owner or count.
C15_SettledSpreadChangesNothing ==
    \A g \in SpreadArgs :
        NoCellFull(g) => (Spread(g).state = AcceptingInput /\ Spread(g).grid = g)

\* C15 amended: where no cell is full, spread() returns AcceptingInput and
\* changes no marble's position or slot and no cell's owner or count; it gives
\* every marble the owner of its cell (they differ after a capture, until the
\* next spread), so that a second spread(), and any spread() while the game
\* accepts input, changes nothing at all.
C15_SettledSpreadCommitsOwnersOnly ==
    /\ \A g \in SpreadArgs :
          NoCellFull(g) =>
              /\ Spread(g).state = AcceptingInput
              /\ ~Spread(g).panic
              /\ SameButMarbleOwners(g, Spread(g).grid)
              /\ OwnersCommitted(Spread(g).grid)
              /\ Spread(Spread(g).grid).grid = Spread(g).grid
    /\ (state.tag = "AcceptingInput" /\ NoCellFull(grid)) => Spread(grid).grid = grid

\* C15 witness: the animation is at its last step, no cell is full, and a
\* captured marble still has the owner it had before the capture
C15_Witness ==
    /\ state = Animating(0)
    /\ NoCellFull(grid)
    /\ ~OwnersCommitted(grid)

\* C16: while the game is animating, a click or the Return key only moves the
\* selection cursor: no step places a marble, and a step that is not a call of
\* Game::step leaves the grid, the players, cur_player and the state unchanged.
C16_ClickWhileAnimatingMovesCursorOnly ==
    [][state.tag = "Animating" =>
          /\ NumMarbles(grid') = NumMarbles(grid)
          /\ (selected' # selected \/ state' = state) =>
                UNCHANGED << grid, players, cur_player, state >>]_vars

\* C16 witness: in the middle of an animation the cursor is on a cell of the
\* current player that has room, where a click would place a marble if the game
\* accepted input
C16_Witness ==
    /\ state.tag = "Animating"
    /\ stepped > 0
    /\ GridCell(grid, selected).owner = Some(cur_player)
    /\ GridCell(grid, selected).count > 0
    /\ GridCell(grid, selected).count < GridCell(grid, selected).neighbors

\* Player o owns a cell of grid g
OwnsIn(g, o) == \E i \in DOMAIN g.cells : g.cells[i].owner = Some(o)

\* C17 as stated: a player's alive flag becomes false only in a step whose
\* resulting state is AcceptingInput.
C17_EliminatedOnlyAtSettle ==
    [][\A o \in DOMAIN players :
          (players[o].alive /\ ~players'[o].alive) => state'.tag = "AcceptingInput"]_vars

\* C17 amended: a player's alive flag becomes false only in a call of
\* Game::step made while the game is animating, and in every such call it
\* becomes false for each started player who owns no cell after the call,
\* whether the resulting state is still Animating or not.
C17_EliminatedInAnyAnimationStep ==
    [][/\ \A o \in DOMAIN players :
             (players[o].alive /\ ~players'[o].alive) =>
                 (StepCall /\ players[o].started /\ ~OwnsIn(grid', o))
       /\ StepCall => \A o \in DOMAIN players :
             players'[o].alive = IF OwnsIn(grid', o) THEN TRUE
                                 ELSE IF players[o].started THEN FALSE
                                 ELSE players[o].alive]_vars

\* C17 witness: one call of Game::step into an animation a player is dead
\* while a marble with that player's owner field is still on the grid
C17_Witness ==
    /\ state = Animating(TotalSteps - 1)
    /\ stepped = 1
    /\ \E o \in DOMAIN players :
          /\ ~players[o].alive
          /\ \E k \in DOMAIN AllMarbles(grid) : AllMarbles(grid)[k].owner = o

\* C18: whenever the game accepts input, every marble has the owner of the
\* cell that holds it.
C18_MarbleOwnerIsCellOwner ==
    state.tag = "AcceptingInput" => OwnersCommitted(grid)

\* C18 witness: the game accepts input after a capture: a player is dead (all
\* the cells that player had were taken) and marbles lie in two cells or more
C18_Witness ==
    /\ state.tag = "AcceptingInput"
    /\ \E o \in DOMAIN players : players[o].started /\ ~players[o].alive
    /\ Cardinality({c \in Cells : c.count > 0}) >= 2

\* Point q lies inside a grid of dimensions dim
Inside(dim, q) == q.re >= 0 /\ q.re < dim.re /\ q.im >= 0 /\ q.im < dim.im

\* The number of grid borders a coordinate lies on, counted per axis
OnBorders(dim, p) ==
    (IF p.re = 0 \/ p.re = dim.re - 1 THEN 1 ELSE 0)
        + (IF p.im = 0 \/ p.im = dim.im - 1 THEN 1 ELSE 0)

\* C19: on every grid and for every cell, has_neighbor[d] is true exactly when
\* coord + DIRECTIONS[d] lies inside the grid, and the capacity is the number of
\* such directions: on grids at least 2 wide and 2 high, 2 for corners, 3 for
\* edges and 4 for interior cells.
C19_CapacityIsNeighboursInGrid ==
    \A p \in Coords(grid) :
        LET c == GridCell(grid, p) IN
        /\ c.coord = p
        /\ \A d \in Dirs : c.has_neighbor[d] <=> Inside(grid.dim, PAdd(p, DIRECTIONS[d]))
        /\ c.neighbors = Cardinality({d \in Dirs : Inside(grid.dim, PAdd(p, DIRECTIONS[d]))})
        /\ (grid.dim.re >= 2 /\ grid.dim.im >= 2) =>
               c.neighbors = 4 - OnBorders(grid.dim, p)

\* C19 witness: the cursor is on an interior cell, with four neighbours, of a
\* grid that also has edge cells on all four sides
C19_Witness ==
    /\ OnBorders(grid.dim, selected) = 0
    /\ GridCell(grid, selected).neighbors = 4
    /\ grid.dim.re >= 4
    /\ grid.dim.im >= 4

\* No slot of the grid in a direction without a neighbour holds a marble
NoMarbleTowardsBorder(g) ==
    \A i \in DOMAIN g.cells : \A sd \in Cats \X Dirs :
        IsSome(g.cells[i].slots[sd[1]][sd[2]]) => g.cells[i].has_neighbor[sd[2]]

\* C20: in every reachable state, and on every grid spread() is called on, no
\* slot in a direction without a neighbour holds a marble; every marble a cell
\* can send in direction d goes to the cell at coord + DIRECTIONS[d], which
\* lies inside the grid and is the cell the index computed for it addresses;
\* no index is out of bounds.
C20_MarblesStayInsideGrid ==
    /\ fault # "panic"
    /\ NoMarbleTowardsBorder(grid)
    /\ \A g \in PreSpread :
          /\ NoMarbleTowardsBorder(g)
          /\ ~Spread(g).panic
          /\ \A i \in DOMAIN g.cells : \A d \in Dirs :
                IsSome(g.cells[i].slots[Outgoing][d]) =>
                    LET q == PAdd(g.cells[i].coord, DIRECTIONS[d]) IN
                    /\ Inside(g.dim, q)
                    /\ InBounds(g, Idx(g, q))
                    /\ GridCell(g, q).coord = q

\* C20 witness: a cell on the border with three neighbours has become full by
\* receiving, and sort_received() has put a marble into each of its three
\* Outgoing slots that has a neighbour
C20_Witness ==
    \E c \in Cells :
        /\ c.neighbors = 3
        /\ \A d \in Dirs : c.has_neighbor[d] => IsSome(c.slots[Outgoing][d])

\* Grid::spread up to the point where it calls sort_received on the cells:
\* [grid, any_moved, panic] after the ownership loop and the send loop
BeforeSort(g) ==
    SpreadOut([grid |-> CommitOwners(g), any_moved |-> FALSE, panic |-> FALSE],
              PointIter(g.dim), 1)

\* No slot of the given category holds a marble anywhere on the grid
CategoryEmpty(g, s) ==
    \A i \in DOMAIN g.cells : \A d \in Dirs : ~IsSome(g.cells[i].slots[s][d])

\* C21: whenever spread() calls sort_received on the cells, the Outgoing slots
\* of every cell are empty; after spread() has returned, and so in every
\* reachable state, the Incoming slots of every cell are empty.
C21_OutgoingEmptyBeforeSortIncomingAfter ==
    /\ CategoryEmpty(grid, Incoming)
    /\ \A g \in PreSpread :
          /\ BeforeSort(g).any_moved => CategoryEmpty(BeforeSort(g).grid, Outgoing)
          /\ CategoryEmpty(Spread(g).grid, Incoming)

\* C21 witness: a spread has sent marbles, and a cell that received one is full
\* when sort_received is called on it, so that its Incoming marbles become
\* Outgoing
C21_Witness ==
    \E g \in PreSpread : \E i \in DOMAIN g.cells :
        /\ BeforeSort(g).any_moved
        /\ Full(BeforeSort(g).grid.cells[i])
        /\ \E d \in Dirs : IsSome(BeforeSort(g).grid.cells[i].slots[Incoming][d])
        /\ \E d \in Dirs : IsSome(Spread(g).grid.cells[i].slots[Outgoing][d])

\* The marbles in the slots of one category of a cell
SlotMarbles(cell, s) ==
    {Unwrap(cell.slots[s][d]) : d \in {e \in Dirs : IsSome(cell.slots[s][e])}}

\* The cells sort_received is called on with marbles received and room left
SortedNotFull ==
    {c \in {BeforeSort(g).grid.cells[i] : g \in PreSpread, i \in DOMAIN grid.cells} :
        ~Full(c) /\ \E d \in Dirs : IsSome(c.slots[Incoming][d])}

\* C22: sort_received on a cell that is not full after receiving moves every
\* Incoming marble into a Residing slot that was empty and has a neighbour;
\* an Incoming marble in direction d whose Residing slot d is empty ends in
\* Residing slot d; marbles already Residing keep their slot; nothing else of
\* the cell changes.
C22_SortIntoResiding ==
    \A c \in SortedNotFull :
        LET r == CellSortReceived(c) IN
        /\ \A d \in Dirs : ~IsSome(r.slots[Incoming][d])
        /\ \A d \in Dirs :
              /\ IsSome(c.slots[Residing][d]) => r.slots[Residing][d] = c.slots[Residing][d]
              /\ (IsSome(c.slots[Incoming][d]) /\ ~IsSome(c.slots[Residing][d])) =>
                    r.slots[Residing][d] = c.slots[Incoming][d]
              /\ IsSome(r.slots[Residing][d]) => c.has_neighbor[d]
        /\ SlotMarbles(r, Residing) = SlotMarbles(c, Residing) \cup SlotMarbles(c, Incoming)
        /\ Cardinality({d \in Dirs : IsSome(r.slots[Residing][d])})
              = Cardinality({d \in Dirs : IsSome(c.slots[Residing][d])})
                + Cardinality({d \in Dirs : IsSome(c.slots[Incoming][d])})
        /\ r.slots[Outgoing] = c.slots[Outgoing]
        /\ r.count = c.count
        /\ r.owner = c.owner

\* C22 witness: a cell that is not full has received a marble from a direction
\* whose Residing slot is taken
C22_Witness ==
    \E c \in SortedNotFull : \E d \in Dirs :
        IsSome(c.slots[Incoming][d]) /\ IsSome(c.slots[Residing][d])

\* The lowest direction that has a neighbour and whose Residing slot is empty
\* (4 when there is none)
LowestFree(cell) ==
    LET free == {d \in Dirs : cell.has_neighbor[d] /\ ~IsSome(cell.slots[Residing][d])}
    IN IF free = {} THEN 4 ELSE CHOOSE d \in free : \A e \in free : d <= e

\* C23: whenever the game accepts input, a successful add by any player to any
\* cell puts the new marble into the Residing slot of the lowest direction that
\* has a neighbour and is empty; if the cell is then full, every Residing
\* marble, the new one included, is in the Outgoing slot of its direction with
\* its position unchanged, and Residing is empty.
C23_AddFillsLowestFreeSlot ==
    state.tag = "AcceptingInput" =>
        \A c \in Cells : \A o \in DOMAIN players :
            LET r == CellAddMarble(c, o, CellSize)
                dmin == LowestFree(c)
                kept == IF Full(r.cell) THEN Outgoing ELSE Residing
                left == IF Full(r.cell) THEN Residing ELSE Outgoing
            IN r.ok =>
                /\ dmin # 4
                /\ IsSome(r.cell.slots[kept][dmin])
                /\ Unwrap(r.cell.slots[kept][dmin]).owner = o
                /\ \A d \in Dirs \ {dmin} :
                       r.cell.slots[kept][d] = c.slots[Residing][d]
                /\ \A d \in Dirs : ~IsSome(r.cell.slots[left][d])
                /\ r.cell.slots[Incoming] = c.slots[Incoming]
                /\ Full(r.cell) <=> c.count + 1 = c.neighbors

\* C23 witness: the game accepts input and the current player can fill a cell
\* of three neighbours whose lowest free slot is not its first direction
C23_Witness ==
    /\ state.tag = "AcceptingInput"
    /\ \E c \in Cells :
          /\ c.neighbors = 3
          /\ c.count = 2
          /\ c.owner = Some(cur_player)
          /\ LowestFree(c) > 0
          /\ c.has_neighbor[0]

\* The occupied slots of a grid: (index of the cell, category, direction)
OccupiedSlots(g) ==
    {t \in (DOMAIN g.cells) \X Cats \X Dirs : IsSome(g.cells[t[1]].slots[t[2]][t[3]])}

\* The marble in an occupied slot
MarbleAt(g, t) == Unwrap(g.cells[t[1]].slots[t[2]][t[3]])

\* The marbles of a grid as a bag of (position, owner of the marble)
MarbleBag(g) ==
    [x \in {<< MarbleAt(g, t).pos, Some(MarbleAt(g, t).owner) >> : t \in OccupiedSlots(g)} |->
        Cardinality({t \in OccupiedSlots(g) :
            << MarbleAt(g, t).pos, Some(MarbleAt(g, t).owner) >> = x})]

\* The marbles of a grid as a bag of (position, owner of the cell holding it)
OwnedBag(g) ==
    [x \in {<< MarbleAt(g, t).pos, g.cells[t[1]].owner >> : t \in OccupiedSlots(g)} |->
        Cardinality({t \in OccupiedSlots(g) :
            << MarbleAt(g, t).pos, g.cells[t[1]].owner >> = x})]

\* The owner field of the marble in every slot of a grid
SlotOwners(g) ==
    [t \in (DOMAIN g.cells) \X Cats \X Dirs |->
        IF t \in OccupiedSlots(g) THEN Some(MarbleAt(g, t).owner) ELSE None]

\* A cell of grid g holds a marble whose owner is not the owner of the cell
Captured(g, i) ==
    \E k \in DOMAIN CellMarbles(g.cells[i]) :
        g.cells[i].owner # Some(CellMarbles(g.cells[i])[k].owner)

\* C24: every spread() gives each marble the owner of the cell that holds it
\* when the call begins, before anything is sent, and changes no marble's owner
\* afterwards: the marbles of the grid it returns carry the owners the cells
\* had at the call, also in cells whose owner a receive has changed. No step
\* call of the countdown and no placement without spread changes the owner of
\* a marble, so a captured cell's marbles keep their owner until the next
\* spread() begins.
C24_MarbleOwnersChangeOnlyWhenSpreadBegins ==
    [][(grid' # grid \/ state' # state) =>
          /\ \A g \in PreSpread : MarbleBag(Spread(g).grid) = OwnedBag(g)
          /\ (state.tag = "Animating" /\ state.steps > 0) =>
                 SlotOwners(grid') = SlotOwners(grid)
          /\ (state.tag = "AcceptingInput" /\ state' = state) =>
                 \A t \in OccupiedSlots(grid) :
                     SlotOwners(grid')[t] = SlotOwners(grid)[t]]_vars

\* C24 witness: a spread has just captured a cell, which is now full and holds
\* a marble that still has the previous owner; the next spread will send it
C24_Witness ==
    /\ state = Animating(TotalSteps)
    /\ \E i \in DOMAIN grid.cells :
          /\ Captured(grid, i)
          /\ Full(grid.cells[i])
          /\ grid.cells[i].owner = Some(cur_player)

\* The two grids differ in nothing but the positions of marbles
SameButPositions(g, h) ==
    /\ g.dim = h.dim
    /\ DOMAIN g.cells = DOMAIN h.cells
    /\ \A i \in DOMAIN g.cells :
          /\ h.cells[i].owner = g.cells[i].owner
          /\ h.cells[i].count = g.cells[i].count
          /\ h.cells[i].coord = g.cells[i].coord
          /\ h.cells[i].neighbors = g.cells[i].neighbors
          /\ h.cells[i].has_neighbor = g.cells[i].has_neighbor
    /\ OccupiedSlots(g) = OccupiedSlots(h)
    /\ SlotOwners(g) = SlotOwners(h)

\* C25: Grid::step in AcceptingInput returns AcceptingInput and leaves the
\* grid as it is, and no call of Game::step in AcceptingInput changes anything;
\* a step call in Animating(n) with n > 0 (while animating, the steps that
\* leave the cursor where it is) leads to Animating(n - 1) and changes nothing
\* of the grid but positions of marbles: no cell's owner, count or slot
\* assignment and no marble's owner.
C25_StepCountsDownAndMovesOnly ==
    [][/\ state.tag = "AcceptingInput" =>
             /\ GridStep(grid, state, CellSize).grid = grid
             /\ GridStep(grid, state, CellSize).state = AcceptingInput
             /\ ~Step
       /\ (state.tag = "Animating" /\ state.steps > 0 /\ selected' = selected) =>
             /\ state' = Animating(state.steps - 1)
             /\ SameButPositions(grid, grid')
             /\ grid' = GridStep(grid, state, CellSize).grid]_vars

\* C25 witness: in the countdown of an animation a step call moves a marble
\* while a captured marble still has its previous owner
C25_Witness ==
    /\ state.tag = "Animating"
    /\ state.steps > 0
    /\ stepped > 0
    /\ GridStep(grid, state, CellSize).grid # grid
    /\ ~OwnersCommitted(grid)

\* The target position of an occupied slot: the centre of its cell plus a
\* quarter of the cell size in the direction of the slot
SlotTarget(g, t) ==
    Point(g.cells[t[1]].coord.re * CellSize + CellSize \div 2
              + (CellSize \div 4) * DIRECTIONS[t[3]].re,
          g.cells[t[1]].coord.im * CellSize + CellSize \div 2
              + (CellSize \div 4) * DIRECTIONS[t[3]].im)

\* C26: the interpolation step with 0 steps remaining puts a marble exactly on
\* the target of the slot it occupies, wherever it is; so does the step call at
\* Animating(0) with every marble of the grid; and whenever the game accepts
\* input every marble is exactly on the target of its slot.
C26_MarblesOnTargetWhenAccepting ==
    /\ \A t \in OccupiedSlots(grid) :
          MarbleStep(MarbleAt(grid, t), SlotTarget(grid, t), 0).pos = SlotTarget(grid, t)
    /\ state = Animating(0) =>
          \A t \in OccupiedSlots(grid) :
              MarbleAt(StepAll(grid, 0, CellSize), t).pos = SlotTarget(grid, t)
    /\ state.tag = "AcceptingInput" =>
          \A t \in OccupiedSlots(grid) : MarbleAt(grid, t).pos = SlotTarget(grid, t)

\* C26 witness: the animation has counted down to 0 and a marble is still off
\* the target of its slot
C26_Witness ==
    /\ state = Animating(0)
    /\ \E t \in OccupiedSlots(grid) : MarbleAt(grid, t).pos # SlotTarget(grid, t)

\* The cell a cursor key leads to from p on a grid of dimension dim: one step
\* in the key's direction, from the last column or row to 0 and from 0 to the
\* last
NavTarget(dim, p, keycode) ==
    CASE keycode = "Right" -> Point(IF p.re = dim.re - 1 THEN 0 ELSE p.re + 1, p.im)
      [] keycode = "Left" -> Point(IF p.re = 0 THEN dim.re - 1 ELSE p.re - 1, p.im)
      [] keycode = "Down" -> Point(p.re, IF p.im = dim.im - 1 THEN 0 ELSE p.im + 1)
      [] keycode = "Up" -> Point(p.re, IF p.im = 0 THEN dim.im - 1 ELSE p.im - 1)

\* C27: the selection cursor is inside the grid before and after every step; a
\* press of Right, Left, Down or Up moves it one cell in that direction,
\* wrapping around at the edges, and changes neither the grid, the player
\* records, cur_player nor the game state.
C27_NavigationWrapsAndMovesCursorOnly ==
    [][/\ Inside(grid.dim, selected)
       /\ Inside(grid.dim, selected')
       /\ \A keycode \in {"Right", "Left", "Down", "Up"} :
             /\ Inside(grid.dim, NavTarget(grid.dim, selected, keycode))
             /\ KeyDown(keycode) =>
                   /\ selected' = NavTarget(grid.dim, selected, keycode)
                   /\ UNCHANGED << grid, players, cur_player, state >>]_vars

\* C27 witness: in a game with marbles on the grid the cursor is in the last
\* column and the last row of a grid with more than one column and row, where
\* Right and Down wrap around
C27_Witness ==
    /\ grid.dim.re > 1
    /\ grid.dim.im > 1
    /\ selected = Point(grid.dim.re - 1, grid.dim.im - 1)
    /\ NumMarbles(grid) > 1
    /\ fault = "none"

\* C28: on every grid of w >= 1 columns and h >= 1 rows, PointIter yields w * h
\* coordinates, all inside the grid, the k-th of them the one with
\* x * h + y = w * h - k: every coordinate exactly once, in strictly decreasing
\* order of x * h + y from (w - 1, h - 1) down to (0, 0), and then ends.
C28_PointIterYieldsEveryCoordinateOnce ==
    LET it == PointIter(grid.dim)
        w == grid.dim.re
        h == grid.dim.im
    IN /\ Len(it) = w * h
       /\ \A k \in 1 .. Len(it) :
             /\ Inside(grid.dim, it[k])
             /\ it[k].re * h + it[k].im = w * h - k
       /\ \A q \in Coords(grid) :
             Cardinality({k \in 1 .. Len(it) : it[k] = q}) = 1
       /\ it[1] = Point(w - 1, h - 1)
       /\ it[Len(it)] = Point(0, 0)
       /\ PointIterRest(grid.dim, it[Len(it)]) = << >>

\* C28 witness: on a grid with several columns and rows the cursor is on the
\* coordinate the iterator yields after the last one of a column: the top of
\* the column before
C28_Witness ==
    /\ grid.dim.re >= 3
    /\ grid.dim.im >= 3
    /\ PointIter(grid.dim)[grid.dim.im + 1] = selected
    /\ selected = Point(grid.dim.re - 2, grid.dim.im - 1)

\* C29: in every reachable state at least one player is alive and the scan for
\* the next player has never failed to end; it would end from every reachable
\* state; and during an animation the current player owns a cell, before and
\* after the step call in which check_players runs.
C29_SomePlayerAlive ==
    /\ \E o \in DOMAIN players : players[o].alive
    /\ fault # "hang"
    /\ ~NextPlayerIfAccepting(AcceptingInput, players, cur_player).hang
    /\ state.tag = "Animating" =>
          /\ OwnsIn(grid, cur_player)
          /\ OwnsIn(GridStep(grid, state, CellSize).grid, cur_player)
          /\ CheckPlayers(GridStep(grid, state, CellSize).grid, players)[cur_player].alive

\* C29 witness: check_players has run in an animation with every player
\* started, and only the current player is left alive
C29_Witness ==
    /\ state.tag = "Animating"
    /\ stepped > 0
    /\ \A o \in DOMAIN players : players[o].started
    /\ \A o \in DOMAIN players : players[o].alive <=> o = cur_player

\* The occupied Incoming slots of a cell
Received(cell) == {d \in Dirs : IsSome(cell.slots[Incoming][d])}

\* C30: on every grid spread() is called on, every cell that sends is owned by
\* the current player; when the send loop is through, every marble received
\* carries the current player as owner and lies in a cell owned by the current
\* player, so all the receive() calls on one cell have set the same owner.
C30_SendersBelongToCurrentPlayer ==
    \A g \in PreSpread :
        /\ \A i \in Senders(g) : g.cells[i].owner = Some(cur_player)
        /\ \A i \in DOMAIN g.cells :
              LET c == BeforeSort(g).grid.cells[i] IN
              Received(c) # {} =>
                  /\ c.owner = Some(cur_player)
                  /\ \A d \in Received(c) :
                        Unwrap(c.slots[Incoming][d]).owner = cur_player

\* C30 witness: in one spread a cell receives marbles from two cells, one of
\* which the current player has captured from another player
C30_Witness ==
    \E g \in PreSpread :
        /\ \E i \in DOMAIN g.cells :
              Cardinality(Received(BeforeSort(g).grid.cells[i])) >= 2
        /\ \E i \in Senders(g) : Captured(g, i)

\* The ways of rearranging a finite set of positions
Rearrangements(S) == {f \in [S -> S] : \A a, b \in S : f[a] = f[b] => a = b}

\* The cell at coordinate p of grid g can be full at some point of the
\* send/receive loop, whatever the order: it is full at the start, or what it
\* holds and what its neighbours hold for it in their Outgoing slots reaches
\* its number of neighbours.  Any other cell is skipped when it is visited.
CanBeFull(g, p) ==
    LET c == GridCell(g, p) IN
    \/ Full(c)
    \/ c.count + Cardinality({d \in Dirs :
            /\ c.has_neighbor[d]
            /\ IsSome(GridCell(g, PAdd(p, DIRECTIONS[d])).slots[Outgoing][(d + 2) % 4])})
          >= c.neighbors

\* The orders of visiting the cells that are tried: on grids of up to
\* MaxLiveCells cells every permutation of the order of PointIter; on larger
\* grids every permutation of it that moves only cells that can be full
VisitOrders(g) ==
    LET n == Len(g.cells)
        it == PointIter(g.dim)
        active == {k \in 1 .. n : CanBeFull(g, it[k])}
    IN IF n <= MaxLiveCells
       THEN {[k \in 1 .. n |-> it[f[k]]] : f \in Rearrangements(1 .. n)}
       ELSE {[k \in 1 .. n |-> IF k \in active THEN it[f[k]] ELSE it[k]] :
                f \in Rearrangements(active)}

\* Grid::spread with the send/receive loop visiting the given coordinates in
\* the given order: [grid, state, panic]
SpreadInOrder(g, coords) ==
    Let(SpreadOut([grid |-> CommitOwners(g), any_moved |-> FALSE, panic |-> FALSE],
                  coords, 1),
        LAMBDA acc :
        IF acc.panic THEN [grid |-> acc.grid, state |-> AcceptingInput, panic |-> TRUE]
        ELSE IF acc.any_moved
             THEN [grid |-> SortAll(acc.grid), state |-> Animating(TotalSteps),
                   panic |-> FALSE]
             ELSE [grid |-> acc.grid, state |-> AcceptingInput, panic |-> FALSE])

\* C31: for the grid of every reachable state and every grid spread() is
\* called on, visiting the cells in another order in the send/receive loop
\* gives the grid and the state that the order of PointIter gives.
C31_SpreadIndependentOfVisitOrder ==
    \A g \in SpreadArgs :
        \A coords \in VisitOrders(g) : SpreadInOrder(g, coords) = Spread(g)

\* C31 witness: a spread with two senders in which a cell that receives is
\* full after receiving, so that an order that visits it after its sender
\* calls send() on it and an order that visits it before does not
C31_Witness ==
    \E g \in PreSpread :
        /\ Cardinality(Senders(g)) >= 2
        /\ \E i \in DOMAIN g.cells :
              /\ i \notin Senders(g)
              /\ Received(BeforeSort(g).grid.cells[i]) # {}
              /\ Full(BeforeSort(g).grid.cells[i])
              /\ ~Full(g.cells[i])

\* The directions in which a cell holds an Outgoing marble
OutgoingDirs(cell) == {d \in Dirs : IsSome(cell.slots[Outgoing][d])}

\* The directions in which a cell has a neighbour
NeighbourDirs(cell) == {d \in Dirs : cell.has_neighbor[d]}

\* C32: in every state a click or a step call leaves, a cell holds
\* Outgoing marbles if and only if it is full, and a full cell holds exactly
\* one Outgoing marble in each direction that has a neighbour, the marbles
\* beyond those being Residing.
C32_OutgoingIffFull ==
    \A c \in Cells :
        /\ OutgoingDirs(c) # {} <=> Full(c)
        /\ Full(c) =>
              /\ OutgoingDirs(c) = NeighbourDirs(c)
              /\ c.count - c.neighbors
                    = Cardinality({d \in Dirs : IsSome(c.slots[Residing][d])})

\* C33: elimination is permanent: a player whose alive flag is false owns no
\* cell, and after any step still has the flag false and still owns no cell.
C33_EliminationIsPermanent ==
    [][\A o \in DOMAIN players :
          ~players[o].alive =>
              /\ ~OwnsIn(grid, o)
              /\ ~players'[o].alive
              /\ ~OwnsIn(grid', o)]_vars

\* C33 witness: a placement has just started an animation while a player who
\* had placed marbles is eliminated
C33_Witness ==
    /\ state = Animating(TotalSteps)
    /\ stepped = 0
    /\ \E o \in placed : ~players[o].alive

\* C34: a player whose alive flag is false has made a successful placement
\* before; a player who has not placed a marble yet, failed clicks or not, is
\* alive.  While the game is animating, which is when check_players runs, every
\* started player has placed a marble: a player started by a failed click
\* alone is the current player of a game that accepts input.
C34_OnlyPlayersWhoPlacedAreEliminated ==
    /\ \A o \in DOMAIN players : ~players[o].alive => o \in placed
    /\ \A o \in DOMAIN players :
          (players[o].started /\ o \notin placed) =>
              (o = cur_player /\ state.tag = "AcceptingInput")

\* C34 witness: check_players has run in an animation and has eliminated a
\* player while another player, who has not placed a marble yet, is alive
C34_Witness ==
    /\ state.tag = "Animating"
    /\ stepped > 0
    /\ \E o \in DOMAIN players : ~players[o].alive
    /\ \E o \in DOMAIN players : o \notin placed /\ players[o].alive

\* The send/receive loop of spread() on grid g at the moment it visits the k-th
\* coordinate of PointIter: [grid, any_moved, panic] after the first k - 1 visits
AtVisit(g, k) ==
    SpreadOut([grid |-> CommitOwners(g), any_moved |-> FALSE, panic |-> FALSE],
              SubSeq(PointIter(g.dim), 1, k - 1), 1)

\* The marbles a cell holds without those it has just received
OwnCount(cell) == cell.count - Cardinality(Received(cell))

\* C35: in every reachable state the count of every cell is at most twice its
\* number of neighbours minus 1; and in every spread(), a cell that is full
\* when the loop visits it holds, right after its send(), fewer marbles of its
\* own (not counting what it has just received) than it has neighbours.
C35_CountBelowTwiceCapacity ==
    /\ \A c \in Cells : c.count <= 2 * c.neighbors - 1
    /\ \A g \in PreSpread : \A k \in 1 .. Len(g.cells) :
          LET c == GridCell(AtVisit(g, k).grid, PointIter(g.dim)[k]) IN
          Full(c) => OwnCount(CellSend(c).cell) < c.neighbors

====
